---- MODULE Spec2Model ----
(***************************************************************************)
(* The GraphQL route of webkwondo/node-graphql: one POST route whose        *)
(* pre-handler validates the query depth and whose handler runs graphql()   *)
(* over resolvers that read and write the Prisma storage.                    *)
(*                                                                         *)
(* The repository holds two generations of the route:                       *)
(*   RouteIndex  src/src/routes/graphql/index.ts (src/unnamed/part_000 has   *)
(*               the same Query resolvers): handler only, the subscription   *)
(*               fields are join rows re-projected by Query.user;            *)
(*   RoutePart1  src/unnamed/part_001: pre-handler with depthLimit(5),       *)
(*               resolvers on User.userSubscribedTo / subscribedToUser,      *)
(*               and the change / subscribe mutations.                       *)
(* A behaviour fixes the route at Init and then serves requests one after    *)
(* the other, every storage call of the request being one step, so that the  *)
(* calls of one request complete in any order and interleave with the        *)
(* storage writes of other requests.                                         *)
(*                                                                         *)
(* Three specifications share the state and the actions:                     *)
(*   Spec          query requests, storage failures, writes of other         *)
(*                 requests;                                                 *)
(*   SpecRepeat    query requests and a client that keeps one reply, to      *)
(*                 compare a later reply with;                               *)
(*   SpecMutation  the mutation requests that work on existing rows.         *)
(*                                                                         *)
(* Paths are sequences of naturals: the position of a field in its           *)
(* selection set, then the index of the element in the field's value (1 for  *)
(* a single object), alternating.                                            *)
(***************************************************************************)
EXTENDS Integers, Sequences, FiniteSets, TLC

VARIABLES
    route,      \* which generation of the route is deployed
    users,      \* ids of the rows of table User
    names,      \* User.name of every id (a value of Names)
    subs,       \* rows of SubscribersOnAuthors: <<subscriberId, authorId>>
    profiles,   \* rows of table Profile: <<userId, yearOfBirth>> (its id is the user's)
    posts,      \* rows of table Post: <<postId, authorId, title>>
    pc,         \* where the request is: idle, preHandler, handler, executing, replied
    query,      \* index of the request's query in Queries (0: none)
    pending,    \* the resolver calls in flight: the storage has not served them
    resolved,   \* path -> result of the storage call issued for that field
    errors,     \* exeContext.errors: field errors in the order they were caught
    failures,   \* storage calls of this request that failed
    response,   \* the reply of the request
    mutations,  \* storage writes done by other requests so far
    startMut,   \* value of mutations when the request was received
    previous    \* a reply the client has kept, to compare a later one with

vars == <<route, users, names, subs, profiles, posts, pc, query, pending,
          resolved, errors, failures, response, mutations, startMut, previous>>

dbVars == <<users, names, subs, profiles, posts>>

-----------------------------------------------------------------------------
(* Bounds of the model *)

NumUsers == 3
MaxFailures == 2
MaxMutations == 1
MaxWrites == 2

(* depthLimit(5) *)
MaxDepth == 5

UserIds == 1..NumUsers
(* An id that no row of User has *)
MissingId == NumUsers + 1
(* The values of User.name: the one every row starts with, and another *)
Names == {0, 1}

RouteIndex == "index.ts"
RoutePart1 == "part_001"
Routes == {RouteIndex, RoutePart1}

SubFields == {"userSubscribedTo", "subscribedToUser"}

-----------------------------------------------------------------------------
(* Query shapes *)

Leaf(n) == [name |-> n, arg |-> 0, sel |-> <<>>]
Rel(n, s) == [name |-> n, arg |-> 0, sel |-> s]
RelArg(n, a, s) == [name |-> n, arg |-> a, sel |-> s]

RECURSIVE Chain(_, _, _)
Chain(f, k, leaves) ==
    IF k = 0 THEN leaves ELSE <<Rel(f, Chain(f, k - 1, leaves))>>

IdOnly == <<Leaf("id")>>

(* The request bodies of the model: a query string either parses to a      *)
(* document (its selection set) or does not parse.                          *)
Queries == <<
    \* 1: { users { id name profile { id memberType { id } user { id } } posts { id author { id } } } }
    [parses |-> TRUE, sel |-> <<Rel("users",
        <<Leaf("id"), Leaf("name"),
          Rel("profile", <<Leaf("id"), Rel("memberType", IdOnly), Rel("user", IdOnly)>>),
          Rel("posts", <<Leaf("id"), Rel("author", IdOnly)>>)>>)>>],
    \* 2: { users { id userSubscribedTo { id } } }
    [parses |-> TRUE, sel |-> <<Rel("users",
        <<Leaf("id"), Rel("userSubscribedTo", IdOnly)>>)>>],
    \* 3: { users { id name subscribedToUser { id name } } }
    [parses |-> TRUE, sel |-> <<Rel("users",
        <<Leaf("id"), Leaf("name"),
          Rel("subscribedToUser", <<Leaf("id"), Leaf("name")>>)>>)>>],
    \* 4: { user(id: 1) { userSubscribedTo { id userSubscribedTo { id } } } }
    [parses |-> TRUE, sel |-> <<RelArg("user", 1,
        <<Rel("userSubscribedTo",
              <<Leaf("id"), Rel("userSubscribedTo", IdOnly)>>)>>)>>],
    \* 5: { user(id: 1) { id userSubscribedTo { id } posts { id } }
    \*      users { id userSubscribedTo { id } posts { id } } }
    [parses |-> TRUE, sel |->
        <<RelArg("user", 1, <<Leaf("id"), Rel("userSubscribedTo", IdOnly),
                              Rel("posts", IdOnly)>>),
          Rel("users", <<Leaf("id"), Rel("userSubscribedTo", IdOnly),
                         Rel("posts", IdOnly)>>)>>],
    \* 6: relation depth 5: { users { userSubscribedTo x4 { id } } }
    [parses |-> TRUE, sel |->
        <<Rel("users", Chain("userSubscribedTo", MaxDepth - 1, IdOnly))>>],
    \* 7: relation depth 6, one field beyond the limit
    [parses |-> TRUE, sel |->
        <<Rel("users", Chain("userSubscribedTo", MaxDepth, IdOnly))>>],
    \* 8: relation depth 6, two fields beyond the limit
    [parses |-> TRUE, sel |->
        <<Rel("users", Chain("userSubscribedTo", MaxDepth,
                             <<Leaf("id"), Rel("userSubscribedTo", IdOnly)>>))>>],
    \* 9: a query string that does not parse, such as "{"
    [parses |-> FALSE, sel |-> <<>>],
    \* 10: { users { title } }: title is no field of User
    [parses |-> TRUE, sel |-> <<Rel("users", <<Leaf("title")>>)>>],
    \* 11: { user(id: 2) { id name subscribedToUser { id userSubscribedTo { id } } } }
    [parses |-> TRUE, sel |-> <<RelArg("user", 2,
        <<Leaf("id"), Leaf("name"),
          Rel("subscribedToUser",
              <<Leaf("id"), Rel("userSubscribedTo", IdOnly)>>)>>)>>],
    \* 12: { user(id: MissingId) { id name posts { id } } }
    [parses |-> TRUE, sel |-> <<RelArg("user", MissingId,
        <<Leaf("id"), Leaf("name"), Rel("posts", IdOnly)>>)>>]
>>

QueryIds == 1..Len(Queries)

-----------------------------------------------------------------------------
(* The schema: object types and their fields *)

Scalars(typ) ==
    CASE typ = "User" -> {"id", "name"}
      [] typ = "Profile" -> {"id", "yearOfBirth"}
      [] typ = "Post" -> {"id", "title"}
      [] typ = "MemberType" -> {"id"}
      [] typ = "SubscribersOnAuthors" -> {"id"}
      [] OTHER -> {}

RelTarget(r, typ, f) ==
    CASE typ = "Query" /\ f \in {"users", "user"} -> "User"
      [] typ = "User" /\ f = "profile" -> "Profile"
      [] typ = "User" /\ f = "posts" -> "Post"
      [] typ = "User" /\ f \in SubFields ->
            IF r = RoutePart1 THEN "User" ELSE "SubscribersOnAuthors"
      [] typ = "Profile" /\ f = "user" -> "User"
      [] typ = "Profile" /\ f = "memberType" -> "MemberType"
      [] typ = "Post" /\ f = "author" -> "User"
      [] typ = "MemberType" /\ f = "profiles" -> "Profile"
      [] typ = "SubscribersOnAuthors" /\ f \in {"subscriber", "author"} -> "User"
      [] typ = "SubscribersOnAuthors" /\ f \in SubFields -> "SubscribersOnAuthors"
      [] OTHER -> "none"

IsList(f) ==
    f \in {"users", "posts", "profiles", "userSubscribedTo", "subscribedToUser"}

(* graphql()'s validation of the document against the schema, one error   *)
(* for a field that is no scalar of the type (no selection set) or no       *)
(* relation of it (with one); the selection of an unknown field is not      *)
(* visited.                                                                 *)
ValidationError == [msg |-> "Cannot query field", path |-> <<>>]

RECURSIVE ValidationErrors(_, _, _, _)
ValidationErrors(r, sel, i, typ) ==
    IF i > Len(sel) THEN <<>>
    ELSE (IF sel[i].sel = <<>>
          THEN (IF sel[i].name \in Scalars(typ) THEN <<>> ELSE <<ValidationError>>)
          ELSE IF RelTarget(r, typ, sel[i].name) = "none"
               THEN <<ValidationError>>
               ELSE ValidationErrors(r, sel[i].sel, 1,
                                     RelTarget(r, typ, sel[i].name)))
         \o ValidationErrors(r, sel, i + 1, typ)

Valid(r, sel) == ValidationErrors(r, sel, 1, "Query") = <<>>

-----------------------------------------------------------------------------
(* The storage collaborator (Prisma) *)

RECURSIVE SortedSeq(_)
SortedSeq(S) ==
    IF S = {} THEN <<>>
    ELSE LET m == CHOOSE x \in S : \A y \in S : x <= y
         IN <<m>> \o SortedSeq(S \ {m})

AuthorsOf(u) == {a \in users : <<u, a>> \in subs}
SubscribersOf(u) == {s \in users : <<s, u>> \in subs}

ProfileOwners == {r[1] : r \in profiles}
PostIds == {r[1] : r \in posts}
ProfileRow(u) ==
    [id |-> u, yearOfBirth |-> (CHOOSE r \in profiles : r[1] = u)[2],
     memberType |-> <<[id |-> 1]>>]
PostRow(p) == [id |-> p, title |-> (CHOOSE r \in posts : r[1] = p)[3]]
PostsOf(u) == {row[1] : row \in {r \in posts : r[2] = u}}

(* include: { profile: { include: { memberType: true } }, posts: true } *)
IncludeProfile(u) == IF u \in ProfileOwners THEN <<ProfileRow(u)>> ELSE <<>>
IncludePosts(u) ==
    [i \in 1..Cardinality(PostsOf(u)) |-> PostRow(SortedSeq(PostsOf(u))[i])]

PlainUser(u) == [id |-> u, name |-> names[u]]

UserWithProfileAndPosts(u) ==
    [id |-> u, name |-> names[u],
     profile |-> IncludeProfile(u), posts |-> IncludePosts(u)]

JoinRow(s, a) == [subscriberId |-> s, authorId |-> a]

(* prisma.user.findMany({ include: ... }) of Query.users *)
FindManyUsers ==
    [i \in 1..Cardinality(users) |-> UserWithProfileAndPosts(SortedSeq(users)[i])]

(* prisma.user.findUnique of Query.user in part_001: the join rows are     *)
(* included as they are.                                                    *)
FindUniqueUserPart1(id) ==
    IF id \notin users THEN <<>>
    ELSE <<[id |-> id, name |-> names[id],
            profile |-> IncludeProfile(id), posts |-> IncludePosts(id),
            userSubscribedTo |->
                [i \in 1..Cardinality(AuthorsOf(id)) |->
                    JoinRow(id, SortedSeq(AuthorsOf(id))[i])],
            subscribedToUser |->
                [i \in 1..Cardinality(SubscribersOf(id)) |->
                    JoinRow(SortedSeq(SubscribersOf(id))[i], id)]]>>

(* Query.user of index.ts: findUnique with the nested includes, then the   *)
(* re-projection of the join rows (transformedEntry).                       *)
TransformedAuthor(a) ==
    [id |-> a,
     subscribedToUser |->
        [i \in 1..Cardinality(SubscribersOf(a)) |->
            [id |-> SortedSeq(SubscribersOf(a))[i]]]]

TransformedSubscriber(s) ==
    [id |-> s,
     userSubscribedTo |->
        [i \in 1..Cardinality(AuthorsOf(s)) |->
            [id |-> SortedSeq(AuthorsOf(s))[i]]]]

(* { ...entry, userSubscribedTo: ..., subscribedToUser: ... } *)
TransformedEntry(id) ==
    [id |-> id, name |-> names[id],
     profile |-> IncludeProfile(id), posts |-> IncludePosts(id),
     userSubscribedTo |->
        [i \in 1..Cardinality(AuthorsOf(id)) |->
            TransformedAuthor(SortedSeq(AuthorsOf(id))[i])],
     subscribedToUser |->
        [i \in 1..Cardinality(SubscribersOf(id)) |->
            TransformedSubscriber(SortedSeq(SubscribersOf(id))[i])]]

(* return entry ? transformedEntry : entry. Without the test the resolver  *)
(* returns the re-projection of no row: an object that has no property      *)
(* with a value.                                                            *)
FindUniqueUserIndexNoEntryTest(id) ==
    IF id \notin users THEN << <<>> >> ELSE <<TransformedEntry(id)>>

FindUniqueUserIndex(id) ==
    IF id \notin users THEN <<>> ELSE <<TransformedEntry(id)>>

(* User.userSubscribedTo resolve of part_001: the users that have a row of *)
(* which the source is the subscriber.                                      *)
FindManyUserSubscribedTo(id) ==
    [i \in 1..Cardinality(AuthorsOf(id)) |-> PlainUser(SortedSeq(AuthorsOf(id))[i])]

(* User.subscribedToUser resolve of part_001: the users that have a row of *)
(* which the source is the author. With the filter of the other resolver    *)
(* (the rows of which the source is the subscriber) it is the same list as  *)
(* userSubscribedTo.                                                        *)
FindManySubscribedToUserBySubscriber(id) ==
    [i \in 1..Cardinality(AuthorsOf(id)) |-> PlainUser(SortedSeq(AuthorsOf(id))[i])]

FindManySubscribedToUser(id) ==
    [i \in 1..Cardinality(SubscribersOf(id)) |->
        PlainUser(SortedSeq(SubscribersOf(id))[i])]

-----------------------------------------------------------------------------
(* The pre-handler's depth rule *)

DepthError == [msg |-> "exceeds maximum operation depth", path |-> <<>>]

(* validate(executableSchema, parse(query), [depthLimit(5)]): the rule     *)
(* walks the operation with the root fields at depth 0 and reports one      *)
(* error at every field whose depth is beyond the limit, without            *)
(* descending into it.                                                      *)
RECURSIVE DepthErrorsOffByOne(_, _, _)
DepthErrorsOffByOne(sel, i, depthSoFar) ==
    IF i > Len(sel) THEN <<>>
    ELSE (IF depthSoFar >= MaxDepth THEN <<DepthError>>
          ELSE IF sel[i].sel = <<>> THEN <<>>
          ELSE DepthErrorsOffByOne(sel[i].sel, 1, depthSoFar + 1))
         \o DepthErrorsOffByOne(sel, i + 1, depthSoFar)

RECURSIVE DepthErrors(_, _, _)
DepthErrors(sel, i, depthSoFar) ==
    IF i > Len(sel) THEN <<>>
    ELSE (IF depthSoFar > MaxDepth THEN <<DepthError>>
          ELSE IF sel[i].sel = <<>> THEN <<>>
          ELSE DepthErrors(sel[i].sel, 1, depthSoFar + 1))
         \o DepthErrors(sel, i + 1, depthSoFar)

-----------------------------------------------------------------------------
(* Field resolution *)

(* The fields that have a resolver of their own: the root fields, and in   *)
(* part_001 the two subscription fields of User. Every other field is       *)
(* read off the parent object (graphql's default resolver).                 *)
HasResolver(r, typ, f) ==
    \/ typ = "Query"
    \/ r = RoutePart1 /\ typ = "User" /\ f \in SubFields

(* The storage lookup a resolver issues: the field and the id it looks up  *)
BatchKey(typ, node, obj) ==
    [kind |-> node.name,
     id |-> IF typ = "Query" THEN node.arg ELSE obj.id]

(* What the storage returns for a lookup, read from the tables as they are *)
(* when the call is served.                                                 *)
Lookup(r, key) ==
    CASE key.kind = "users" -> FindManyUsers
      [] key.kind = "user" ->
            IF r = RoutePart1 THEN FindUniqueUserPart1(key.id)
            ELSE FindUniqueUserIndex(key.id)
      [] key.kind = "userSubscribedTo" -> FindManyUserSubscribedTo(key.id)
      [] key.kind = "subscribedToUser" -> FindManySubscribedToUser(key.id)

Ok(items) == [st |-> "ok", items |-> items]
Undefined == [st |-> "undefined", items |-> <<>>]

(* defaultFieldResolver: source[fieldName] *)
DefaultResolve(obj, f) ==
    IF f \in DOMAIN obj THEN Ok(obj[f]) ELSE Undefined

(* The value a relation field resolved to: the recorded result of its      *)
(* resolver's storage call, or the parent's property.                       *)
FieldResult(r, rs, typ, node, obj, p) ==
    IF HasResolver(r, typ, node.name)
    THEN (IF p \in DOMAIN rs THEN rs[p] ELSE [st |-> "pending", items |-> <<>>])
    ELSE DefaultResolve(obj, node.name)

(* The resolver calls that executing a selection set on an object starts:  *)
(* one for every field with a resolver; a field read off the object is      *)
(* completed at once, which executes its selection set on its value.        *)
RECURSIVE TasksIn(_, _, _, _, _)
TasksIn(r, sel, typ, obj, path) ==
    UNION {
        LET node == sel[i]
            p == Append(path, i)
        IN  IF node.sel = <<>> THEN {}
            ELSE IF HasResolver(r, typ, node.name)
            THEN {[path |-> p, typ |-> typ, key |-> BatchKey(typ, node, obj)]}
            ELSE LET res == DefaultResolve(obj, node.name)
                 IN  UNION { TasksIn(r, node.sel, RelTarget(r, typ, node.name),
                                     res.items[j], Append(p, j))
                             : j \in 1..Len(res.items) }
        : i \in 1..Len(sel) }

(* The field of the query at a path *)
RECURSIVE NodeAt(_, _)
NodeAt(sel, p) ==
    IF Len(p) = 1 THEN sel[p[1]]
    ELSE NodeAt(sel[p[1]].sel, SubSeq(p, 3, Len(p)))

(* The resolver calls that completing the value of a served call starts *)
ChildTasks(r, sel, t, items) ==
    LET node == NodeAt(sel, t.path)
    IN  UNION { TasksIn(r, node.sel, RelTarget(r, t.typ, node.name),
                        items[j], Append(t.path, j))
                : j \in 1..Len(items) }

-----------------------------------------------------------------------------
(* The result document *)

NullV == [k |-> "null"]
IntV(n) == [k |-> "int", v |-> n]
ObjV(o) == [k |-> "obj", v |-> o]
ListV(s) == [k |-> "list", v |-> s]

(* completeValue of a relation field: null for a failed or undefined       *)
(* value, a list of objects, or one object (null when there is none).       *)
CompleteRelationEmptyOnFailure(isList, res, children) ==
    IF isList THEN ListV([j \in 1..Len(children) |-> ObjV(children[j])])
    ELSE IF children = <<>> THEN NullV
    ELSE ObjV(children[1])

(* A list assembled by putting every completed element in front *)
CompleteRelationLastFirst(isList, res, children) ==
    IF res.st # "ok" THEN NullV
    ELSE IF isList
    THEN ListV([j \in 1..Len(children) |-> ObjV(children[Len(children) + 1 - j])])
    ELSE IF children = <<>> THEN NullV
    ELSE ObjV(children[1])

CompleteRelation(isList, res, children) ==
    IF res.st # "ok" THEN NullV
    ELSE IF isList THEN ListV([j \in 1..Len(children) |-> ObjV(children[j])])
    ELSE IF children = <<>> THEN NullV
    ELSE ObjV(children[1])

(* executeFields: one entry per selected field, in the order of the        *)
(* selection set.                                                           *)
RECURSIVE ExecuteFields(_, _, _, _, _, _)
ExecuteFields(r, rs, sel, typ, obj, path) ==
    [i \in 1..Len(sel) |->
        LET node == sel[i]
            p == Append(path, i)
        IN  [name |-> node.name,
             val |->
                IF node.sel = <<>>
                THEN (IF node.name \in DOMAIN obj THEN IntV(obj[node.name])
                      ELSE NullV)
                ELSE LET res == FieldResult(r, rs, typ, node, obj, p)
                     IN  CompleteRelation(IsList(node.name), res,
                            [j \in 1..Len(res.items) |->
                                ExecuteFields(r, rs, node.sel,
                                              RelTarget(r, typ, node.name),
                                              res.items[j], Append(p, j))])]]

RootValue == <<>>

-----------------------------------------------------------------------------
(* The request *)

Q == Queries[query]

NoResponse == [kind |-> "none", hasData |-> FALSE, data |-> <<>>, errors |-> <<>>]

(* What the framework replies when a hook throws: its error handler's      *)
(* body { statusCode: 500, error, message }.                                *)
FaultResponse ==
    [kind |-> "fault", hasData |-> FALSE, data |-> <<>>,
     errors |-> <<[msg |-> "Syntax Error", path |-> <<>>]>>]

ErrorsOnly(errs) ==
    [kind |-> "graphql", hasData |-> FALSE, data |-> <<>>, errors |-> errs]

(* A POST arrives: the route with a pre-handler runs it first *)
PreHandlerRunsHandlerAnyway(errs) == "handler"

PreHandlerNext(errs) == IF Len(errs) > 0 THEN "replied" ELSE "handler"

FirstStage(r) == IF r = RoutePart1 THEN "preHandler" ELSE "handler"

Receive(q) ==
    /\ pc = "idle"
    /\ query' = q
    /\ pc' = FirstStage(route)
    /\ pending' = {}
    /\ resolved' = <<>>
    /\ errors' = <<>>
    /\ failures' = 0
    /\ response' = NoResponse
    /\ startMut' = mutations
    /\ UNCHANGED <<route, dbVars, mutations, previous>>

(* preHandler: parse(query) throws on a query that does not parse; a       *)
(* depth error is sent as the reply and the handler is not run.             *)
PreHandler ==
    /\ pc = "preHandler"
    /\ IF ~Q.parses
       THEN /\ response' = FaultResponse
            /\ pc' = "replied"
       ELSE LET errs == DepthErrors(Q.sel, 1, 0)
            IN  /\ pc' = PreHandlerNext(errs)
                /\ response' = IF Len(errs) > 0 THEN ErrorsOnly(errs)
                               ELSE response
    /\ UNCHANGED <<route, dbVars, query, pending, resolved, errors, failures,
                   mutations, startMut, previous>>

(* handler: graphql() parses and validates the source, and returns the     *)
(* errors without executing when either fails; else it executes the root    *)
(* selection set, which calls the resolvers of the root fields.             *)
Handler ==
    /\ pc = "handler"
    /\ IF ~Q.parses
       THEN /\ response' = ErrorsOnly(<<[msg |-> "Syntax Error", path |-> <<>>]>>)
            /\ pc' = "replied"
            /\ UNCHANGED pending
       ELSE IF ~Valid(route, Q.sel)
       THEN /\ response' = ErrorsOnly(ValidationErrors(route, Q.sel, 1, "Query"))
            /\ pc' = "replied"
            /\ UNCHANGED pending
       ELSE /\ pc' = "executing"
            /\ pending' = TasksIn(route, Q.sel, "Query", RootValue, <<>>)
            /\ UNCHANGED response
    /\ UNCHANGED <<route, dbVars, query, resolved, errors, failures,
                   mutations, startMut, previous>>

(* The storage serves one resolver's call: every call is looked up by its  *)
(* own key. A memo of the served calls kept by field alone would hand a     *)
(* call the rows of an earlier call of the same field.                      *)
ServedByFieldAlone(t) ==
    LET earlier == {p \in DOMAIN resolved :
                        resolved[p].st = "ok" /\ resolved[p].key.kind = t.key.kind}
    IN  [st |-> "ok", key |-> t.key,
         items |-> IF earlier = {} THEN Lookup(route, t.key)
                   ELSE resolved[CHOOSE p \in earlier : TRUE].items]

Served(t) == [st |-> "ok", key |-> t.key, items |-> Lookup(route, t.key)]

FetchOk(t) ==
    /\ pc = "executing"
    /\ t \in pending
    /\ resolved' = resolved @@ (t.path :> Served(t))
    /\ pending' = (pending \ {t})
                    \cup ChildTasks(route, Q.sel, t, Served(t).items)
    /\ UNCHANGED <<route, dbVars, pc, query, errors, failures, response,
                   mutations, startMut, previous>>

(* The storage fails one resolver's call: the field error is caught at    *)
(* the field and recorded.                                                  *)
FetchFail(t) ==
    /\ pc = "executing"
    /\ t \in pending
    /\ failures < MaxFailures
    /\ pending' = pending \ {t}
    /\ resolved' = resolved @@
            (t.path :> [st |-> "failed", key |-> t.key, items |-> <<>>])
    /\ errors' = Append(errors, [msg |-> "storage", path |-> t.path])
    /\ failures' = failures + 1
    /\ UNCHANGED <<route, dbVars, pc, query, response, mutations, startMut, previous>>

(* graphql() resolves: every resolver's call has been served *)
Result ==
    [kind |-> "graphql", hasData |-> TRUE,
     data |-> ExecuteFields(route, resolved, Q.sel, "Query", RootValue, <<>>),
     errors |-> errors]

Reply ==
    /\ pc = "executing"
    /\ pending = {}
    /\ response' = Result
    /\ pc' = "replied"
    /\ UNCHANGED <<route, dbVars, query, pending, resolved, errors, failures,
                   mutations, startMut, previous>>

(* The request is over: nothing of it is kept *)
Finish ==
    /\ pc = "replied"
    /\ pc' = "idle"
    /\ query' = 0
    /\ pending' = {}
    /\ resolved' = <<>>
    /\ errors' = <<>>
    /\ failures' = 0
    /\ response' = NoResponse
    /\ startMut' = mutations
    /\ UNCHANGED <<route, dbVars, mutations, previous>>

-----------------------------------------------------------------------------
(* The storage write of a mutation of another request (part_001) *)

(* changeUser: prisma.user.update, which fails on a missing row *)
ChangeUser(id, n) ==
    /\ route = RoutePart1
    /\ mutations < MaxMutations
    /\ names' = IF id \in users THEN [names EXCEPT ![id] = n] ELSE names
    /\ mutations' = mutations + 1
    /\ UNCHANGED <<route, users, subs, profiles, posts, pc, query, pending, resolved,
                   errors, failures, response, startMut, previous>>

-----------------------------------------------------------------------------
(* A mutation request: mutation { field(args) }, with the selection { id } *)
(* where the field's type is an object type. It passes the pre-handler (it  *)
(* has no depth), graphql() calls the field's resolver, which awaits one    *)
(* storage operation and returns, and the handler returns the result: one   *)
(* step, the storage operation being atomic.                                *)

Mut(kind, id, arg) == [kind |-> kind, id |-> id, arg |-> arg]

(* The mutation fields of the route's schema that work on existing rows *)
MutationFields(r) ==
    IF r = RoutePart1
    THEN {"deletePost", "deleteUser", "deleteProfile", "changePost",
          "changeProfile", "changeUser", "subscribeTo", "unsubscribeFrom"}
    ELSE {"deletePost", "deleteUser", "deleteProfile"}

(* The ids a request names: those of the rows, and one that no row has *)
ArgIds == UserIds \cup {MissingId}

(* The resolver of the field can be called *)
Resolving(f) ==
    /\ pc = "idle"
    /\ mutations < MaxWrites
    /\ f \in MutationFields(route)

(* The value of a mutation field of an object type: { id } of what the     *)
(* resolver returned.                                                       *)
IdOf(typ, row) == ObjV(ExecuteFields(route, <<>>, IdOnly, typ, row, <<1, 1>>))

(* The reply to a mutation: the value the resolver returned (EmptyResponse *)
(* serializes to null), or null and the error of the rejected storage       *)
(* operation.                                                               *)
MutationResult(m, ok, val) ==
    [kind |-> "graphql", hasData |-> TRUE,
     data |-> <<[name |-> m.kind, val |-> IF ok THEN val ELSE NullV]>>,
     errors |-> IF ok THEN <<>> ELSE <<[msg |-> "storage", path |-> <<1>>]>>]

MutationReply(m, ok, val) ==
    /\ pc' = "replied"
    /\ query' = 0
    /\ pending' = {}
    /\ resolved' = (<<1>> :> [st |-> IF ok THEN "ok" ELSE "failed",
                              key |-> m, items |-> <<>>])
    /\ errors' = MutationResult(m, ok, val).errors
    /\ failures' = IF ok THEN 0 ELSE 1
    /\ response' = MutationResult(m, ok, val)
    /\ startMut' = mutations
    /\ mutations' = IF ok THEN mutations + 1 ELSE mutations
    /\ UNCHANGED <<route, previous>>

(* deletePost: prisma.post.delete rejects when no row has the id *)
DeletePost(id) ==
    /\ Resolving("deletePost")
    /\ posts' = {r \in posts : r[1] # id}
    /\ MutationReply(Mut("deletePost", id, 0), id \in PostIds, NullV)
    /\ UNCHANGED <<users, names, subs, profiles>>

(* What the schema declares for the rows that reference a deleted user     *)
(* (onDelete of their relations to User).                                   *)
ReferentialActions == {"Cascade", "Restrict"}

Referenced(id) ==
    \/ id \in ProfileOwners
    \/ PostsOf(id) # {}
    \/ \E r \in subs : r[1] = id \/ r[2] = id

(* deleteUser: prisma.user.delete rejects when no row has the id, and when *)
(* the user is referenced and the schema restricts; it takes the rows that  *)
(* reference the user with it when the schema cascades.                     *)
DeleteUser(id, onDelete) ==
    /\ Resolving("deleteUser")
    /\ LET ok == id \in users /\ (onDelete = "Cascade" \/ ~Referenced(id))
       IN  /\ users' = IF ok THEN users \ {id} ELSE users
           /\ profiles' = IF ok THEN {r \in profiles : r[1] # id} ELSE profiles
           /\ posts' = IF ok THEN {r \in posts : r[2] # id} ELSE posts
           /\ subs' = IF ok THEN {r \in subs : r[1] # id /\ r[2] # id} ELSE subs
           /\ MutationReply(Mut("deleteUser", id, 0), ok, NullV)
    /\ UNCHANGED names

(* deleteProfile *)
DeleteProfile(id) ==
    /\ Resolving("deleteProfile")
    /\ profiles' = {r \in profiles : r[1] # id}
    /\ MutationReply(Mut("deleteProfile", id, 0), id \in ProfileOwners, NullV)
    /\ UNCHANGED <<users, names, subs, posts>>

(* changePost: prisma.post.update rejects when no row has the id *)
ChangePost(id, title) ==
    /\ Resolving("changePost")
    /\ posts' = {IF r[1] = id THEN <<r[1], r[2], title>> ELSE r : r \in posts}
    /\ MutationReply(Mut("changePost", id, title), id \in PostIds,
                     IdOf("Post", [id |-> id, title |-> title]))
    /\ UNCHANGED <<users, names, subs, profiles>>

(* changeProfile *)
ChangeProfile(id, yearOfBirth) ==
    /\ Resolving("changeProfile")
    /\ profiles' = {IF r[1] = id THEN <<r[1], yearOfBirth>> ELSE r : r \in profiles}
    /\ MutationReply(Mut("changeProfile", id, yearOfBirth), id \in ProfileOwners,
                     IdOf("Profile", [id |-> id, yearOfBirth |-> yearOfBirth]))
    /\ UNCHANGED <<users, names, subs, posts>>

(* changeUser, as the request that is answered *)
ChangeUserRequest(id, name) ==
    /\ Resolving("changeUser")
    /\ names' = IF id \in users THEN [names EXCEPT ![id] = name] ELSE names
    /\ MutationReply(Mut("changeUser", id, name), id \in users,
                     IdOf("User", [id |-> id, name |-> name]))
    /\ UNCHANGED <<users, subs, profiles, posts>>

(* subscribeTo: subscribersOnAuthors.create rejects when a user to connect *)
(* does not exist or the row exists; the resolver returns the new row, as   *)
(* the value of a field of type User.                                       *)
SubscribeTo(userId, authorId) ==
    /\ Resolving("subscribeTo")
    /\ LET ok == /\ userId \in users
                 /\ authorId \in users
                 /\ <<userId, authorId>> \notin subs
       IN  /\ subs' = IF ok THEN subs \cup {<<userId, authorId>>} ELSE subs
           /\ MutationReply(Mut("subscribeTo", userId, authorId), ok,
                            IdOf("User", JoinRow(userId, authorId)))
    /\ UNCHANGED <<users, names, profiles, posts>>

(* where: { subscriberId_authorId: { subscriberId: userId, authorId } }.   *)
(* A delete by the subscriber alone would take every row of the subscriber. *)
DeleteOfSubscriber(userId, authorId) == {r \in subs : r[1] # userId}

DeleteSubscription(userId, authorId) == subs \ {<<userId, authorId>>}

(* unsubscribeFrom: subscribersOnAuthors.delete rejects when there is no   *)
(* such row.                                                                *)
UnsubscribeFrom(userId, authorId) ==
    /\ Resolving("unsubscribeFrom")
    /\ subs' = DeleteSubscription(userId, authorId)
    /\ MutationReply(Mut("unsubscribeFrom", userId, authorId),
                     <<userId, authorId>> \in subs, NullV)
    /\ UNCHANGED <<users, names, profiles, posts>>

-----------------------------------------------------------------------------
(* The client *)

NoPrevious == [query |-> 0, data |-> <<>>, stamp |-> 0]

(* The client keeps the document of a reply that no storage failure and no *)
(* write of another request touched, with the count of the writes so far.   *)
Observe ==
    /\ pc = "replied"
    /\ previous = NoPrevious
    /\ response.hasData
    /\ failures = 0
    /\ mutations = startMut
    /\ previous' = [query |-> query, data |-> response.data, stamp |-> mutations]
    /\ UNCHANGED <<route, dbVars, pc, query, pending, resolved, errors, failures,
                   response, mutations, startMut>>

-----------------------------------------------------------------------------
(* The data sets a behaviour starts from *)

SubsChain == {<<1, 2>>, <<2, 3>>}
SubsShared == {<<1, 2>>, <<3, 2>>}
SubsMutual == {<<1, 2>>, <<2, 1>>}
InitialSubs == {SubsChain, SubsShared, SubsMutual}

Init ==
    /\ route \in Routes
    /\ users = UserIds
    /\ names = [u \in UserIds |-> 0]
    /\ subs \in InitialSubs
    /\ profiles = {<<1, 0>>}
    /\ posts = {<<1, 1, 1>>, <<2, 1, 2>>}
    /\ pc = "idle"
    /\ query = 0
    /\ pending = {}
    /\ resolved = <<>>
    /\ errors = <<>>
    /\ failures = 0
    /\ response = NoResponse
    /\ mutations = 0
    /\ startMut = 0
    /\ previous = NoPrevious

Next ==
    \/ \E q \in QueryIds : Receive(q)
    \/ PreHandler
    \/ Handler
    \/ \E t \in pending : FetchOk(t)
    \/ \E t \in pending : FetchFail(t)
    \/ Reply
    \/ Finish
    \/ \E id \in UserIds, n \in Names : ChangeUser(id, n)

Spec == Init /\ [][Next]_vars

(* The same requests while the storage serves every call, with a client    *)
(* that keeps one reply.                                                    *)
NextRepeat ==
    \/ \E q \in QueryIds : Receive(q)
    \/ PreHandler
    \/ Handler
    \/ \E t \in pending : FetchOk(t)
    \/ Reply
    \/ Finish
    \/ \E id \in UserIds, n \in Names : ChangeUser(id, n)
    \/ Observe

SpecRepeat == Init /\ [][NextRepeat]_vars

(* The mutation requests, one after the other *)
NextMutation ==
    \/ \E id \in ArgIds : DeletePost(id)
    \/ \E id \in ArgIds, onDelete \in ReferentialActions : DeleteUser(id, onDelete)
    \/ \E id \in ArgIds : DeleteProfile(id)
    \/ \E id \in ArgIds, title \in Names : ChangePost(id, title)
    \/ \E id \in ArgIds, yearOfBirth \in Names : ChangeProfile(id, yearOfBirth)
    \/ \E id \in ArgIds, name \in Names : ChangeUserRequest(id, name)
    \/ \E userId \in ArgIds, authorId \in ArgIds : SubscribeTo(userId, authorId)
    \/ \E userId \in ArgIds, authorId \in ArgIds : UnsubscribeFrom(userId, authorId)
    \/ Finish

SpecMutation == Init /\ [][NextMutation]_vars

-----------------------------------------------------------------------------
(* Vocabulary of the properties *)

Replied == pc = "replied"

(* No other request wrote to the storage while this one was served *)
Quiet == mutations = startMut

(* Relation-nesting depth of a selection set: the root's relation fields   *)
(* count 1 (spec 4.2).                                                      *)
MaxOf(S) == IF S = {} THEN 0 ELSE CHOOSE x \in S : \A y \in S : y <= x

RECURSIVE Depth(_)
Depth(sel) ==
    MaxOf({ IF sel[i].sel = <<>> THEN 0 ELSE 1 + Depth(sel[i].sel)
            : i \in 1..Len(sel) })

(* The route has a depth guard and the query is beyond its limit *)
GuardRejects == route = RoutePart1 /\ Q.parses /\ Depth(Q.sel) > MaxDepth

(* The storage calls the request has issued, served or not *)
Issued ==
    pending \cup {[path |-> p, key |-> resolved[p].key] : p \in DOMAIN resolved}

(* The positions of the fields on a path, without the element indices *)
StaticPath(p) == [i \in 1..((Len(p) + 1) \div 2) |-> p[2 * i - 1]]

HasField(o, n) == \E i \in 1..Len(o) : o[i].name = n
FieldOf(o, n) == o[CHOOSE i \in 1..Len(o) : o[i].name = n].val

(* A document mirrors a selection set: the same field names in the same    *)
(* order, a scalar or null for a field without selection, and for a field   *)
(* with one null, an object or a list of objects that mirror it.            *)
RECURSIVE Mirrors(_, _)
Mirrors(doc, sel) ==
    /\ Len(doc) = Len(sel)
    /\ \A i \in 1..Len(sel) :
        /\ doc[i].name = sel[i].name
        /\ IF sel[i].sel = <<>> THEN doc[i].val.k \in {"int", "null"}
           ELSE \/ doc[i].val.k = "null"
                \/ /\ doc[i].val.k = "obj"
                   /\ ~IsList(sel[i].name)
                   /\ Mirrors(doc[i].val.v, sel[i].sel)
                \/ /\ doc[i].val.k = "list"
                   /\ IsList(sel[i].name)
                   /\ \A j \in 1..Len(doc[i].val.v) :
                        /\ doc[i].val.v[j].k = "obj"
                        /\ Mirrors(doc[i].val.v[j].v, sel[i].sel)

(* The objects of a document, at every level *)
RECURSIVE ObjectsOf(_)
ObjectsOf(doc) ==
    {doc} \cup UNION {
        LET v == doc[i].val
        IN  IF v.k = "obj" THEN ObjectsOf(v.v)
            ELSE IF v.k = "list"
            THEN UNION { IF v.v[j].k = "obj" THEN ObjectsOf(v.v[j].v) ELSE {}
                         : j \in 1..Len(v.v) }
            ELSE {}
        : i \in 1..Len(doc) }

(* The users of a document with their scalar fields: User is the only     *)
(* type with a name.                                                        *)
UserObjects(doc) ==
    {o \in ObjectsOf(doc) : HasField(o, "id") /\ HasField(o, "name")}

(* What the calls of the request return when they are served one after the *)
(* other from the tables as they are, none failing.                         *)
RECURSIVE ServeAll(_, _)
ServeAll(tasks, rs) ==
    IF tasks = {} THEN rs
    ELSE LET t == CHOOSE x \in tasks : TRUE
         IN  ServeAll((tasks \ {t})
                        \cup ChildTasks(route, Q.sel, t, Served(t).items),
                      rs @@ (t.path :> Served(t)))

UnfailedDocument ==
    ExecuteFields(route,
                  ServeAll(TasksIn(route, Q.sel, "Query", RootValue, <<>>), <<>>),
                  Q.sel, "Query", RootValue, <<>>)

(* A document with null at one path and everything else as it is *)
RECURSIVE NullAt(_, _)
NullAt(doc, p) ==
    [i \in 1..Len(doc) |->
        IF i # p[1] THEN doc[i]
        ELSE [name |-> doc[i].name,
              val |->
                IF Len(p) = 1 THEN NullV
                ELSE IF doc[i].val.k = "list"
                THEN ListV([j \in 1..Len(doc[i].val.v) |->
                        IF j = p[2]
                        THEN ObjV(NullAt(doc[i].val.v[j].v, SubSeq(p, 3, Len(p))))
                        ELSE doc[i].val.v[j]])
                ELSE ObjV(NullAt(doc[i].val.v, SubSeq(p, 3, Len(p))))]]

FailedPaths == {p \in DOMAIN resolved : resolved[p].st = "failed"}

-----------------------------------------------------------------------------
(* C1: every query whose relation-nesting depth is greater than maxDepth   *)
(* gets no document and exactly one request-rejected error.                 *)
C1_DeepQueryOneError ==
    (Replied /\ Q.parses /\ Depth(Q.sel) > MaxDepth)
        => (~response.hasData /\ Len(response.errors) = 1)

C3_DocumentMirrorsQuery ==
    (Replied /\ Q.parses /\ Valid(route, Q.sel) /\ Depth(Q.sel) <= MaxDepth)
        => /\ response.kind = "graphql"
           /\ response.hasData
           /\ Mirrors(response.data, Q.sel)
           /\ \A i \in 1..Len(response.errors) :
                response.errors[i].msg = "storage"

C3_Witness ==
    /\ Replied
    /\ route = RoutePart1
    /\ Depth(Q.sel) = MaxDepth
    /\ response.hasData
    /\ Cardinality(DOMAIN resolved) > MaxDepth

(* C4: no exception escapes the pre-handler or the handler: every request  *)
(* body is answered with the response envelope.                             *)
C4_NoExceptionEscapes == Replied => response.kind = "graphql"

(* C5: the sibling lookups of one relation field (the same field of the    *)
(* query, resolved for each element of a list) are one storage call.        *)
C5_OneCallPerSiblingGroup ==
    \A a \in Issued, b \in Issued :
        StaticPath(a.path) = StaticPath(b.path) => a.path = b.path

(* C6: two lookups of one request with equal batch keys (same relation,   *)
(* same id) are one storage call.                                           *)
C6_EqualKeysOneCall ==
    \A a \in Issued, b \in Issued : a.key = b.key => a.path = b.path

(* C7: a user that the document reaches on two paths has the same scalar   *)
(* values on both, whatever other requests do meanwhile.                    *)
C7_SameUserSameScalars ==
    (Replied /\ response.hasData)
        => \A a \in UserObjects(response.data), b \in UserObjects(response.data) :
                FieldOf(a, "id") = FieldOf(b, "id")
                    => FieldOf(a, "name") = FieldOf(b, "name")

(* C8: when the storage fails exactly one call of a request, the document  *)
(* is the one the request gets without the failure but for null at the      *)
(* path of that call, and the error list is one entry, with that path.      *)
C8_OneFailureOneNull ==
    (Replied /\ response.hasData /\ failures = 1 /\ Quiet)
        => /\ Cardinality(FailedPaths) = 1
           /\ \A p \in FailedPaths :
                /\ response.data = NullAt(UnfailedDocument, p)
                /\ response.errors = <<[msg |-> "storage", path |-> p]>>

C8_Witness ==
    /\ Replied
    /\ Quiet
    /\ failures = 1
    /\ route = RoutePart1
    /\ \E p \in FailedPaths :
        /\ Len(p) > 1
        /\ \E q \in DOMAIN resolved :
            /\ q # p
            /\ StaticPath(q) = StaticPath(p)
            /\ resolved[q].items # <<>>

(* C9: with A subscribed to B and B to C and nothing else, user A's        *)
(* userSubscribedTo two levels down is [{id: B, userSubscribedTo:           *)
(* [{id: C}]}] (A, B, C are the users 1, 2, 3; the query is query 4).       *)
C9_Expected ==
    ListV(<<ObjV(<<[name |-> "id", val |-> IntV(2)],
                   [name |-> "userSubscribedTo",
                    val |-> ListV(<<ObjV(<<[name |-> "id",
                                            val |-> IntV(3)]>>)>>)]>>)>>)

C9_TwoLevelsOfSubscriptions ==
    (Replied /\ query = 4 /\ subs = SubsChain /\ failures = 0)
        => /\ response.hasData
           /\ response.data[1].val.k = "obj"
           /\ FieldOf(response.data[1].val.v, "userSubscribedTo") = C9_Expected

(* C10: a user's relation fields have the same value whether the user is   *)
(* reached by the root field user or as an element of the root field users  *)
(* (query 5 asks for both in one request).                                  *)
C10_SameValueFromEitherRoot ==
    (Replied /\ query = 5 /\ response.hasData /\ failures = 0 /\ Quiet)
        => LET one == FieldOf(response.data, "user")
               many == FieldOf(response.data, "users")
           IN  /\ one.k = "obj"
               /\ many.k = "list"
               /\ \E j \in 1..Len(many.v) : many.v[j].v = one.v

-----------------------------------------------------------------------------
(* The value of a document at a path *)
RECURSIVE ValueAt(_, _)
ValueAt(doc, p) ==
    LET v == doc[p[1]].val
    IN  IF Len(p) = 1 THEN v
        ELSE ValueAt(IF v.k = "list" THEN v.v[p[2]].v ELSE v.v,
                     SubSeq(p, 3, Len(p)))

(* The tables hold no row for a lookup *)
NoRowFor(key) ==
    CASE key.kind = "users" -> users = {}
      [] key.kind = "user" -> key.id \notin users
      [] key.kind = "userSubscribedTo" -> AuthorsOf(key.id) = {}
      [] key.kind = "subscribedToUser" -> SubscribersOf(key.id) = {}

(* The value of a relation that has nothing in it *)
EmptyValue(f) == IF IsList(f) THEN ListV(<<>>) ELSE NullV

C12_SameQuerySameDocument ==
    (Replied /\ response.hasData /\ failures = 0
        /\ previous # NoPrevious /\ previous.query = query
        /\ previous.stamp = mutations)
        => response.data = previous.data

(* The query of the kept reply has been executed a second time, one call  *)
(* per user and all of them served.                                         *)
C12_Witness ==
    /\ Replied
    /\ route = RoutePart1
    /\ response.hasData
    /\ failures = 0
    /\ previous # NoPrevious
    /\ previous.query = query
    /\ previous.stamp = mutations
    /\ startMut = mutations
    /\ pending = {}
    /\ query = 2
    /\ response.data = previous.data
    /\ Cardinality(DOMAIN resolved) > NumUsers

(* A path comes before another in the traversal of the query: depth-first, *)
(* the fields in the order of the selection set, the elements of a list in  *)
(* the order of their index.                                                *)
PathBefore(p, q) ==
    \E k \in 1..Len(p) :
        /\ k <= Len(q)
        /\ p[k] < q[k]
        /\ \A j \in 1..(k - 1) : p[j] = q[j]

(* C13: the entries of the error list are in the traversal order of the    *)
(* query, whatever the order in which the calls of sibling fields and       *)
(* sibling elements complete.                                               *)
C13_ErrorsInTraversalOrder ==
    (Replied /\ response.hasData)
        => \A i \in 1..Len(response.errors), j \in 1..Len(response.errors) :
                i < j => PathBefore(response.errors[i].path,
                                    response.errors[j].path)

(* The names of the fields of an object of the document, and of a          *)
(* selection set, in their order.                                           *)
FieldNames(o) == [i \in 1..Len(o) |-> o[i].name]
SelNames(sel) == [i \in 1..Len(sel) |-> sel[i].name]

(* An object of the document is the row: the fields of the selection set   *)
(* in their order, and the id of the row where the id is selected.          *)
ObjectIsRow(v, sel, row) ==
    /\ v.k = "obj"
    /\ FieldNames(v.v) = SelNames(sel)
    /\ HasField(v.v, "id") => FieldOf(v.v, "id") = IntV(row.id)

(* C14: sibling fields and sibling elements are resolved concurrently and  *)
(* the document lists them in the declared order whatever the order in      *)
(* which their calls complete: the fields of every object are those of the  *)
(* selection set in its order, the elements of every list are the rows of   *)
(* its call in their order, and when no call fails and no other request     *)
(* writes, the document is the one that serving the calls one after the     *)
(* other in a fixed order gives.                                            *)
C14_DeclaredOrder ==
    (Replied /\ response.hasData)
        => /\ FieldNames(response.data) = SelNames(Q.sel)
           /\ \A p \in DOMAIN resolved :
                resolved[p].st = "ok" =>
                    LET v == ValueAt(response.data, p)
                        node == NodeAt(Q.sel, p)
                        items == resolved[p].items
                    IN  IF IsList(node.name)
                        THEN /\ v.k = "list"
                             /\ Len(v.v) = Len(items)
                             /\ \A j \in 1..Len(items) :
                                    ObjectIsRow(v.v[j], node.sel, items[j])
                        ELSE items # <<>> => ObjectIsRow(v, node.sel, items[1])
           /\ (failures = 0 /\ Quiet) => response.data = UnfailedDocument

(* The calls of two sibling elements were in flight together and completed *)
(* in the reverse of their order (the later element's call failed first),   *)
(* and the document has the elements of the list in their order.            *)
C14_Witness ==
    /\ Replied
    /\ route = RoutePart1
    /\ response.hasData
    /\ Len(errors) = 2
    /\ StaticPath(errors[1].path) = StaticPath(errors[2].path)
    /\ PathBefore(errors[2].path, errors[1].path)
    /\ response.data[1].val.k = "list"
    /\ Len(response.data[1].val.v) = NumUsers
    /\ \E p \in DOMAIN resolved :
            /\ StaticPath(p) = StaticPath(errors[1].path)
            /\ Len(resolved[p].items) > 0

-----------------------------------------------------------------------------
(* The ids of a user's two subscription fields, as the resolvers of        *)
(* part_001 give them.                                                      *)
UserSubscribedTo(x) ==
    {FindManyUserSubscribedTo(x)[i].id : i \in 1..Len(FindManyUserSubscribedTo(x))}
SubscribedToUser(y) ==
    {FindManySubscribedToUser(y)[i].id : i \in 1..Len(FindManySubscribedToUser(y))}

(* The request just answered is this mutation, and its storage operation   *)
(* succeeded.                                                               *)
Succeeded(kind, id, arg) ==
    /\ pc = "replied"
    /\ <<1>> \in DOMAIN resolved
    /\ resolved[<<1>>].st = "ok"
    /\ resolved[<<1>>].key = Mut(kind, id, arg)

(* In part_001 the two fields are mutual inverses, and a user's           *)
(* userSubscribedTo is the authors of the rows of which the user is the     *)
(* subscriber.                                                              *)
SubscriptionFields ==
    route = RoutePart1 =>
        /\ \A x \in users, y \in users :
                y \in UserSubscribedTo(x) <=> x \in SubscribedToUser(y)
        /\ \A x \in UserIds : UserSubscribedTo(x) = AuthorsOf(x)

-----------------------------------------------------------------------------
(* A step that answers a mutation request *)
MutationStep == pc = "idle" /\ pc' = "replied"

(* The record a mutation targets is not in the tables *)
TargetMissing(m) ==
    CASE m.kind \in {"deletePost", "changePost"} -> m.id \notin PostIds
      [] m.kind \in {"deleteProfile", "changeProfile"} -> m.id \notin ProfileOwners
      [] m.kind \in {"deleteUser", "changeUser"} -> m.id \notin users
      [] m.kind = "unsubscribeFrom" -> <<m.id, m.arg>> \notin subs
      [] m.kind = "subscribeTo" -> m.id \notin users \/ m.arg \notin users

Deletes == {"deletePost", "deleteUser", "deleteProfile", "unsubscribeFrom"}

NullFor(m) == <<[name |-> m.kind, val |-> NullV]>>

(* The step removed the record the mutation targets and nothing else *)
RemovedTarget(m) ==
    CASE m.kind = "deletePost" ->
            /\ posts' = {r \in posts : r[1] # m.id}
            /\ posts' # posts
            /\ UNCHANGED <<users, names, subs, profiles>>
      [] m.kind = "deleteProfile" ->
            /\ profiles' = {r \in profiles : r[1] # m.id}
            /\ profiles' # profiles
            /\ UNCHANGED <<users, names, subs, posts>>
      [] m.kind = "unsubscribeFrom" ->
            /\ subs' = subs \ {<<m.id, m.arg>>}
            /\ subs' # subs
            /\ UNCHANGED <<users, names, profiles, posts>>
      [] m.kind = "deleteUser" ->
            /\ users' = users \ {m.id}
            /\ users' # users
            /\ UNCHANGED <<names, subs, profiles, posts>>

(* The step removed the user and the rows that belong to the user: the     *)
(* profile, the posts, and the subscriptions from and to the user.          *)
RemovedUserAndDependants(m) ==
    /\ users' = users \ {m.id}
    /\ users' # users
    /\ profiles' = {r \in profiles : r[1] # m.id}
    /\ posts' = {r \in posts : r[2] # m.id}
    /\ subs' = {r \in subs : r[1] # m.id /\ r[2] # m.id}
    /\ UNCHANGED names

(* A mutation whose storage operation fails leaves the tables as they are  *)
(* and is answered with null for the field and one error entry; one whose   *)
(* target does not exist fails.                                             *)
FailureLeavesData(m, ok) ==
    /\ TargetMissing(m) => ~ok
    /\ ~ok => /\ UNCHANGED dbVars
              /\ response'.data = NullFor(m)
              /\ response'.errors = <<[msg |-> "storage", path |-> <<1>>]>>

=============================================================================
